---- MODULE Spec2Model ----
(***************************************************************************)
(* The entity-wrapping protocol of the content-management client           *)
(* (src/lib/entities/preview-api-key.ts) and the organization API          *)
(* (createOrganizationApi, src/lib/common-types.ts), over a heap of        *)
(* JavaScript objects with identity, frozen flags and non-enumerable       *)
(* methods.                                                                *)
(***************************************************************************)
EXTENDS Integers, Sequences, FiniteSets, TLC

VARIABLES
    heap,         \* the JavaScript heap: a sequence of objects, addressed 1..Len(heap)
    raw,          \* address of the raw data handed to wrapPreviewApiKey
    entity,       \* address of the wrapped entity (0: not wrapped yet)
    plain,        \* address of the result of entity.toPlainObject() (0: not called)
    entity2,      \* address of the entity wrapped again from plain (0: none)
    writes,       \* number of property writes/deletions the caller has attempted
    sysTouched,   \* TRUE once the caller has attempted a write inside entity.sys
    plainFresh,   \* TRUE when toPlainObject() was called before any caller write
    wrappedFrom,  \* the value of the raw data at the time it was wrapped
    invoked,      \* the mutation methods the caller has called on the entity, each with its outcome
    rawColl,      \* address of the raw collection handed to wrapPreviewApiKeyCollection
    coll,         \* address of the wrapped collection (0: not wrapped yet)
    calls,        \* the calls made on the organization API object, in call order
    requests      \* the HTTP requests issued through http, in issue order

vars == <<heap, raw, entity, plain, entity2, writes, sysTouched, plainFresh,
          wrappedFrom, invoked, rawColl, coll, calls, requests>>

wrapVars == <<raw, entity, plain, entity2, writes, sysTouched, plainFresh, wrappedFrom,
              invoked>>
collVars == <<rawColl, coll>>
apiVars  == <<calls, requests>>

(***************************************************************************)
(* Bounds of the model.                                                    *)
(***************************************************************************)
MaxWrites == 2
MaxItems == 2
MaxCalls == 2

(***************************************************************************)
(* JavaScript values and objects.  A value is a primitive (strings; a      *)
(* number is written as its decimal string) or a reference to a heap       *)
(* object.  An object has enumerable own properties, a frozen flag and a   *)
(* set of non-enumerable methods.                                          *)
(***************************************************************************)
Prim(s) == [t |-> "prim", p |-> s, r |-> 0]
Ref(a)  == [t |-> "ref", p |-> "", r |-> a]

Obj(props) == [props |-> props, frozen |-> FALSE, hidden |-> {}]

\* The properties of the empty object {}.
EmptyProps == [k \in {} |-> Prim("")]

\* The addresses the objects of S refer to.
Refs(h, S) ==
    UNION {{h[x].props[k].r : k \in {j \in DOMAIN h[x].props : h[x].props[j].t = "ref"}}
           : x \in S}

\* The objects reachable from the objects of S.
RECURSIVE Closure(_, _)
Closure(h, S) ==
    LET N == S \cup Refs(h, S)
    IN  IF N = S THEN S ELSE Closure(h, N)

\* The value of the object at a, by its enumerable properties: the set of
\* <<path, leaf>> pairs, an object being marked at its path.
RECURSIVE FlatAt(_, _, _)
FlatAt(h, a, path) ==
    {<<path, "<object>">>} \cup
    UNION {IF h[a].props[k].t = "ref"
              THEN FlatAt(h, h[a].props[k].r, Append(path, k))
              ELSE {<<Append(path, k), h[a].props[k].p>>}
           : k \in DOMAIN h[a].props}

Flat(h, a) == FlatAt(h, a, <<>>)

\* The part of a value under its key k.
Under(F, k) == {e \in F : Len(e[1]) >= 1 /\ e[1][1] = k}

\* The methods carried by the objects reachable from a.
Methods(h, a) == UNION {h[x].hidden : x \in Closure(h, {a})}

(***************************************************************************)
(* lodash and contentful-sdk-core helpers used by the wrap functions.      *)
(***************************************************************************)

\* cloneDeep(value): a fresh copy of every object reachable from a, holding the
\* enumerable properties only; the copies are neither frozen nor carry methods.
cloneDeep(h, a) ==
    LET R       == Closure(h, {a})
        Rank(r) == Cardinality({x \in R : x <= r})
        new(r)  == Len(h) + Rank(r)
        old(i)  == CHOOSE r \in R : Rank(r) = i
        copy(r) == Obj([k \in DOMAIN h[r].props |->
                          IF h[r].props[k].t = "ref"
                             THEN Ref(new(h[r].props[k].r))
                             ELSE h[r].props[k]])
    IN  [heap |-> h \o [i \in 1..Cardinality(R) |-> copy(old(i))], root |-> new(a)]

\* The helpers below take and return an object in its heap: [heap, root].

\* toPlainObject(data): defines the non-enumerable method toPlainObject on data.
toPlainObject(o) ==
    [o EXCEPT !.heap[o.root].hidden = @ \cup {"toPlainObject"}]

\* enhanceWithMethods(baseObject, methodsObject): defines every method of
\* methodsObject as a non-enumerable property of baseObject.
enhanceWithMethods(o, methods) ==
    [o EXCEPT !.heap[o.root].hidden = @ \cup methods]

\* The objects of obj.sys, when obj has one.
SysObjects(h, e) ==
    IF e # 0 /\ "sys" \in DOMAIN h[e].props /\ h[e].props["sys"].t = "ref"
       THEN Closure(h, {h[e].props["sys"].r})
       ELSE {}

\* freezeObjectDeep: the objects of S are frozen.
freezeObjects(h, S) ==
    [i \in 1..Len(h) |-> IF i \in S THEN [h[i] EXCEPT !.frozen = TRUE] ELSE h[i]]

\* freezeSys(obj): deep-freezes obj.sys (or a throwaway {} when there is none).
freezeSys(o) ==
    [o EXCEPT !.heap = freezeObjects(@, SysObjects(@, o.root))]

(***************************************************************************)
(* The caller's writes.  An assignment to, or a deletion of, a property    *)
(* of a frozen object changes nothing (it is ignored, or throws a          *)
(* TypeError in strict mode).                                              *)
(***************************************************************************)
SetProp(h, a, k, v) ==
    IF h[a].frozen THEN h ELSE [h EXCEPT ![a].props = (k :> v) @@ @]

DeleteProp(h, a, k) ==
    IF h[a].frozen THEN h
    ELSE [h EXCEPT ![a].props = [j \in (DOMAIN @) \ {k} |-> @[j]]]

(***************************************************************************)
(* src/lib/entities/preview-api-key.ts                                     *)
(***************************************************************************)

\* The mutation methods an entity's methods object may define.
MutationMethods == {"update", "delete"}

\* A mutant of createPreviewApiKeyApi: the methods object defines update and
\* delete, as the methods objects of the mutable entities do.
createPreviewApiKeyApiMutating == MutationMethods

\* createPreviewApiKeyApi(): the methods object, which is empty.
createPreviewApiKeyApi == {}

\* A mutant of wrapPreviewApiKey: sys is not frozen.
wrapPreviewApiKeyNoFreeze(h, data) ==
    enhanceWithMethods(toPlainObject(cloneDeep(h, data)), createPreviewApiKeyApi)

\* A mutant of wrapPreviewApiKey: the data is decorated in place, not copied.
wrapPreviewApiKeyNoClone(h, data) ==
    freezeSys(enhanceWithMethods(toPlainObject([heap |-> h, root |-> data]),
                                 createPreviewApiKeyApi))

\* data.toPlainObject = <function>, as an ordinary (enumerable) property.
assignToPlainObject(o) ==
    [o EXCEPT !.heap = SetProp(@, o.root, "toPlainObject", Prim("<function>"))]

\* A mutant of wrapPreviewApiKey: toPlainObject is assigned as an ordinary
\* (enumerable) property instead of being defined non-enumerable.
wrapPreviewApiKeyEnumerable(h, data) ==
    freezeSys(enhanceWithMethods(assignToPlainObject(cloneDeep(h, data)),
                                 createPreviewApiKeyApi))

\* wrapPreviewApiKey(_http, data)
wrapPreviewApiKey(h, data) ==
    freezeSys(enhanceWithMethods(toPlainObject(cloneDeep(h, data)),
                                 createPreviewApiKeyApi))

\* entity.toPlainObject(): the method installed by toPlainObject returns
\* cloneDeep(this).
callToPlainObject(h, a) == cloneDeep(h, a)

(***************************************************************************)
(* The wrapping of one raw preview api key, and what its caller may do     *)
(* with the raw data and the entity afterwards.                            *)
(***************************************************************************)

\* The raw data a server sends for a preview api key: with and without the
\* optional createdBy link in its sys.
RawWithLink ==
    << Obj([sys |-> Ref(2), name |-> Prim("n1"), description |-> Prim("d1")]),
       Obj([id |-> Prim("k1"), version |-> Prim("1"), createdBy |-> Ref(3)]),
       Obj([sys |-> Ref(4)]),
       Obj([id |-> Prim("u1"), linkType |-> Prim("User")]) >>

RawNoLink ==
    << Obj([sys |-> Ref(2), name |-> Prim("n2"), description |-> Prim("")]),
       Obj([id |-> Prim("k2"), version |-> Prim("3")]) >>

RawInputs == {RawWithLink, RawNoLink}

\* The keys the caller assigns, and the value it assigns.
WriteKeys == {"name", "id"}
NewVal == "x"

\* The objects the caller holds a path to: those of the raw data and of the entity.
CallerObjects == Closure(heap, {raw} \cup (IF entity = 0 THEN {} ELSE {entity}))

InitWrap ==
    /\ heap \in RawInputs
    /\ raw = 1
    /\ entity = 0 /\ plain = 0 /\ entity2 = 0
    /\ writes = 0 /\ sysTouched = FALSE /\ plainFresh = FALSE
    /\ wrappedFrom = {}
    /\ invoked = {}
    /\ rawColl = 0 /\ coll = 0
    /\ calls = <<>> /\ requests = <<>>

\* entity = wrapPreviewApiKey(http, raw)
Wrap ==
    /\ entity = 0
    /\ LET Store(w) == heap' = w.heap /\ entity' = w.root
       IN  Store(wrapPreviewApiKey(heap, raw))
    /\ wrappedFrom' = Flat(heap, raw)
    /\ UNCHANGED <<raw, plain, entity2, writes, sysTouched, plainFresh, invoked>>
    /\ UNCHANGED <<collVars, apiVars>>

\* The caller assigns obj[k] = NewVal on an object of the raw data or of the entity.
CallerSet(a, k) ==
    /\ entity # 0 /\ plain = 0
    /\ writes < MaxWrites
    /\ a \in CallerObjects
    /\ heap' = SetProp(heap, a, k, Prim(NewVal))
    /\ writes' = writes + 1
    /\ sysTouched' = (sysTouched \/ a \in SysObjects(heap, entity))
    /\ UNCHANGED <<raw, entity, plain, entity2, plainFresh, wrappedFrom, invoked>>
    /\ UNCHANGED <<collVars, apiVars>>

\* The caller deletes obj[k] on an object of the raw data or of the entity; the
\* entity's own sys property is left in place (the writes are on entity.sys,
\* not on the entity's binding of it).
CallerDelete(a, k) ==
    /\ entity # 0 /\ plain = 0
    /\ writes < MaxWrites
    /\ a \in CallerObjects
    /\ k \in DOMAIN heap[a].props
    /\ ~(a = entity /\ k = "sys")
    /\ heap' = DeleteProp(heap, a, k)
    /\ writes' = writes + 1
    /\ sysTouched' = (sysTouched \/ a \in SysObjects(heap, entity))
    /\ UNCHANGED <<raw, entity, plain, entity2, plainFresh, wrappedFrom, invoked>>
    /\ UNCHANGED <<collVars, apiVars>>

\* plain = entity.toPlainObject()
ToPlainObject ==
    /\ entity # 0 /\ plain = 0
    /\ "toPlainObject" \in heap[entity].hidden \cup DOMAIN heap[entity].props
    /\ LET Store(w) == heap' = w.heap /\ plain' = w.root
       IN  Store(callToPlainObject(heap, entity))
    /\ plainFresh' = (writes = 0)
    /\ UNCHANGED <<raw, entity, entity2, writes, sysTouched, wrappedFrom, invoked>>
    /\ UNCHANGED <<collVars, apiVars>>

\* entity2 = wrapPreviewApiKey(http, plain)
Rewrap ==
    /\ plain # 0 /\ entity2 = 0
    /\ LET Store(w) == heap' = w.heap /\ entity2' = w.root
       IN  Store(wrapPreviewApiKey(heap, plain))
    /\ UNCHANGED <<raw, entity, plain, writes, sysTouched, plainFresh, wrappedFrom,
                   invoked>>
    /\ UNCHANGED <<collVars, apiVars>>

\* entity[m](): a method the entity carries sends its request through the HTTP
\* client; a name the entity does not carry is undefined, and calling it throws
\* a TypeError.
callMethod(h, e, m) == IF m \in h[e].hidden THEN "request" ELSE "TypeError"

\* The request a mutation method of a preview api key would send.
MethodRequest(m) ==
    [call |-> 0, verb |-> IF m = "update" THEN "PUT" ELSE "DELETE",
     path |-> <<"preview_api_keys/", "id">>, hasConfig |-> FALSE, params |-> {},
     headers |-> "", body |-> IF m = "update" THEN "data" ELSE ""]

\* The caller calls entity.update() or entity.delete().
CallMethod(m) ==
    /\ entity # 0
    /\ \A i \in invoked : i[1] # m
    /\ invoked' = invoked \cup {<<m, callMethod(heap, entity, m)>>}
    /\ requests' = IF m \in heap[entity].hidden THEN Append(requests, MethodRequest(m))
                                                 ELSE requests
    /\ UNCHANGED <<heap, raw, entity, plain, entity2, writes, sysTouched, plainFresh,
                   wrappedFrom>>
    /\ UNCHANGED <<collVars, calls>>

NextWrap ==
    \/ Wrap
    \/ \E m \in MutationMethods : CallMethod(m)
    \/ \E a \in 1..Len(heap), k \in WriteKeys : CallerSet(a, k)
    \/ \E a \in 1..Len(heap), k \in {"sys", "name", "description", "id", "version",
                                     "createdBy", "linkType"} : CallerDelete(a, k)
    \/ ToPlainObject
    \/ Rewrap

SpecWrap == InitWrap /\ [][NextWrap]_vars

(***************************************************************************)
(* Collections.  An array is an object whose keys are its indices.         *)
(***************************************************************************)
IndexKey == <<"0", "1", "2", "3">>

\* The addresses of the elements of the array at arr, in index order.
ArrayItems(h, arr) ==
    [i \in 1..Cardinality(DOMAIN h[arr].props) |-> h[arr].props[IndexKey[i]].r]

\* The array holding the given references, in order.
ArrayOf(roots) ==
    Obj([k \in {IndexKey[i] : i \in 1..Len(roots)} |->
           Ref(roots[CHOOSE i \in 1..Len(roots) : IndexKey[i] = k])])

\* The methods a wrap function of ./entities gives its entity (update, delete).
entityApi(fn) == {"update", "delete"}

\* The wrap functions of ./entities other than wrapPreviewApiKey (wrapUser,
\* wrapTeam, ...): the same protocol with the entity's own methods.
wrapEntity(fn, h, data) ==
    freezeSys(enhanceWithMethods(toPlainObject(cloneDeep(h, data)), entityApi(fn)))

\* fn(http, data), for the function that a wrap function's name stands for.
callWrap(fn, h, data) ==
    IF fn = "wrapPreviewApiKey" THEN wrapPreviewApiKey(h, data) ELSE wrapEntity(fn, h, data)

\* items.map((entity) => fn(http, entity)), from the i-th item on: the heap after
\* the calls and the addresses fn returned.
RECURSIVE mapItems(_, _, _, _)
RECURSIVE mapRest(_, _, _, _)
mapItems(fn, h, items, i) ==
    IF i > Len(items) THEN [heap |-> h, roots |-> <<>>]
    ELSE mapRest(fn, callWrap(fn, h, items[i]), items, i)

\* The rest of the map, after fn returned w for item i.
mapRest(fn, w, items, i) ==
    [mapItems(fn, w.heap, items, i + 1) EXCEPT !.roots = <<w.root>> \o @]

\* collectionData.items = <the mapped items>
setItems(root, m) ==
    [heap |-> SetProp(Append(m.heap, ArrayOf(m.roots)), root, "items",
                      Ref(Len(m.heap) + 1)),
     root |-> root]

\* The items of the collection o, wrapped by fn.
wrapItems(fn, o) ==
    setItems(o.root,
             mapItems(fn, o.heap, ArrayItems(o.heap, o.heap[o.root].props["items"].r), 1))

\* wrapCollection(fn)(http, data) of ../common-utils: the collection is copied
\* and given toPlainObject, and its items are replaced by fn of each of them.
wrapCollection(fn, h, data) == wrapItems(fn, toPlainObject(cloneDeep(h, data)))

\* A mutant of wrapPreviewApiKeyCollection: the wrap function of another entity
\* is passed to wrapCollection.
wrapPreviewApiKeyCollectionOther(h, data) == wrapCollection("wrapApiKey", h, data)

\* wrapPreviewApiKeyCollection = wrapCollection(wrapPreviewApiKey)
wrapPreviewApiKeyCollection(h, data) == wrapCollection("wrapPreviewApiKey", h, data)

\* The raw items a server sends: item i of a collection is ItemKinds[kind].
RawItem(kind, sysAddr) ==
    IF kind = 1
       THEN Obj([sys |-> Ref(sysAddr), name |-> Prim("n1"), description |-> Prim("d1")])
       ELSE Obj([sys |-> Ref(sysAddr), name |-> Prim("n2"), description |-> Prim("")])

RawItemSys(kind) ==
    IF kind = 1 THEN Obj([id |-> Prim("k1"), version |-> Prim("1")])
                ELSE Obj([id |-> Prim("k2")])

\* The heap holding a raw collection at address 1: the collection, its sys, its
\* items array, then each item followed by its sys.
RawCollection(total, skip, limit, kinds) ==
    << Obj([sys |-> Ref(2), total |-> Prim(total), skip |-> Prim(skip),
            limit |-> Prim(limit), items |-> Ref(3)]),
       Obj([type |-> Prim("Array")]),
       ArrayOf([i \in 1..Len(kinds) |-> 2 + 2 * i]) >>
    \o [j \in 1..(2 * Len(kinds)) |->
          IF j % 2 = 1 THEN RawItem(kinds[(j + 1) \div 2], 3 + j + 1)
                       ELSE RawItemSys(kinds[j \div 2])]

KindSeqs == UNION {[1..n -> {1, 2}] : n \in 0..MaxItems}

InitColl ==
    /\ \E total \in {"0", "2", "7"}, skip \in {"0", "1"}, limit \in {"1", "100"},
          kinds \in KindSeqs :
         heap = RawCollection(total, skip, limit, kinds)
    /\ rawColl = 1 /\ coll = 0
    /\ raw = 0 /\ entity = 0 /\ plain = 0 /\ entity2 = 0
    /\ writes = 0 /\ sysTouched = FALSE /\ plainFresh = FALSE
    /\ wrappedFrom = {}
    /\ invoked = {}
    /\ calls = <<>> /\ requests = <<>>

\* coll = wrapPreviewApiKeyCollection(http, rawColl)
WrapCollection ==
    /\ coll = 0
    /\ LET Store(w) == heap' = w.heap /\ coll' = w.root
       IN  Store(wrapPreviewApiKeyCollection(heap, rawColl))
    /\ UNCHANGED <<rawColl, wrapVars, apiVars>>

NextColl == WrapCollection

SpecColl == InitColl /\ [][NextColl]_vars

\* What a caller can observe of an entity: its value, its methods and whether
\* every object of its sys is frozen.
EntityView(h, a) ==
    [value |-> Flat(h, a), methods |-> h[a].hidden,
     frozenSys |-> \A x \in SysObjects(h, a) : h[x].frozen]

\* C10: the wrapped collection has the total, skip and limit of the raw
\* collection and as many items, in the same order, item i being what
\* wrapPreviewApiKey returns for raw item i.
C10_CollectionWrapped ==
    coll # 0 =>
      LET rawItems == ArrayItems(heap, heap[rawColl].props["items"].r)
          items    == ArrayItems(heap, heap[coll].props["items"].r)
      IN  /\ \A k \in {"total", "skip", "limit"} :
                heap[coll].props[k] = heap[rawColl].props[k]
          /\ Len(items) = Len(rawItems)
          /\ \A i \in 1..Len(rawItems) :
                LET w == wrapPreviewApiKey(heap, rawItems[i])
                IN  EntityView(heap, items[i]) = EntityView(w.heap, w.root)

\* C10 witness: a collection of at least two different items, taken from the
\* middle of a longer list, has been wrapped.
C10_Witness ==
    /\ coll # 0
    /\ Cardinality(DOMAIN heap[heap[coll].props["items"].r].props) >= 2
    /\ heap[coll].props["skip"] = Prim("1")
    /\ heap[coll].props["total"] = Prim("7")
    /\ LET items == ArrayItems(heap, heap[coll].props["items"].r)
       IN  Flat(heap, items[1]) # Flat(heap, items[2])

(***************************************************************************)
(* Claims on the wrapping of one entity.                                   *)
(***************************************************************************)

\* C1: the sys of a wrapped entity is frozen: whatever writes, additions and
\* deletions the caller has attempted on the objects of entity.sys, entity.sys
\* still has the value of the sys of the data it was wrapped from.
C1_SysFrozen ==
    entity # 0 => Under(Flat(heap, entity), "sys") = Under(wrappedFrom, "sys")

\* C1 witness: the entity exists, the caller has used up its writes and at
\* least one of them was attempted inside entity.sys.
C1_Witness == entity # 0 /\ writes = MaxWrites /\ sysTouched

\* C2: the entity is a copy of the raw data: it shares no object with it, its
\* own fields name and description accept an assignment, and no single step
\* changes both the value of the raw data and the value of the entity (so a
\* change to one never shows in the other); wrapping leaves the raw data as
\* it was.
C2_IsCopy ==
    /\ [](entity # 0 =>
            /\ Closure(heap, {entity}) \cap Closure(heap, {raw}) = {}
            /\ \A k \in {"name", "description"} :
                 SetProp(heap, entity, k, Prim(NewVal))[entity].props[k] = Prim(NewVal))
    /\ [][/\ (entity # 0 /\ entity' = entity) =>
               ~(/\ Flat(heap', entity) # Flat(heap, entity)
                 /\ Flat(heap', raw) # Flat(heap, raw))
          /\ (entity = 0 /\ entity' # 0) =>
               /\ Flat(heap', raw) = Flat(heap, raw)
               /\ \A x \in Closure(heap, {raw}) : heap'[x] = heap[x]]_vars

\* C2 witness: the caller has changed the entity's name and the raw data's
\* description; each change shows on its own side only.
C2_Witness ==
    /\ entity # 0
    /\ "name" \in DOMAIN heap[entity].props \cap DOMAIN heap[raw].props
    /\ heap[entity].props["name"] = Prim(NewVal)
    /\ "description" \notin DOMAIN heap[raw].props
    /\ "description" \in DOMAIN heap[entity].props
    /\ heap[raw].props["name"] # Prim(NewVal)

\* C9: toPlainObject() called on a freshly wrapped entity returns an object
\* with the value of the data (same sys, name, description) and no methods;
\* wrapping that object again gives an entity whose plain object has the same
\* value (round trip).
C9_PlainObjectRoundTrip ==
    /\ plain # 0 => Methods(heap, plain) = {}
    /\ (plain # 0 /\ plainFresh) => Flat(heap, plain) = wrappedFrom
    /\ entity2 # 0 =>
         LET p2 == callToPlainObject(heap, entity2)
         IN  /\ Flat(p2.heap, p2.root) = Flat(heap, plain)
             /\ Methods(p2.heap, p2.root) = {}

\* C9 witness: the plain object of a fresh entity has been taken and wrapped again.
C9_Witness == plain # 0 /\ plainFresh /\ entity2 # 0 /\ Methods(heap, entity2) # {}

\* C11 as claimed: the entity wrapPreviewApiKey returns has gained mutation
\* methods (update or delete), and a call of one goes through the HTTP client.
C11_AsClaimed ==
    /\ entity # 0 => MutationMethods \cap Methods(heap, entity) # {}
    /\ \A i \in invoked : i[2] = "request"

\* C11 amended: the entity wrapPreviewApiKey returns gains no mutation method:
\* toPlainObject is its only method, before and after a round trip through the
\* plain object; a call of update or delete on it throws a TypeError, and no
\* request goes through the HTTP client.
C11_PreviewApiKeyMethods ==
    /\ entity # 0 => Methods(heap, entity) = {"toPlainObject"}
    /\ entity2 # 0 => Methods(heap, entity2) = {"toPlainObject"}
    /\ \A i \in invoked : i[2] = "TypeError"
    /\ requests = <<>>

\* C11 witness: the caller has called both update and delete on the entity,
\* which has also been wrapped again from its plain object.
C11_Witness ==
    /\ entity # 0 /\ entity2 # 0
    /\ {i[1] : i \in invoked} = MutationMethods

(***************************************************************************)
(* createOrganizationApi (src/lib/common-types.ts).  A call of a method     *)
(* issues its HTTP request at once; the response, or the failure, arrives   *)
(* later, and then the handler given to .then runs.                         *)
(***************************************************************************)

\* The wrap functions that wrap a collection, and the function each applies
\* to the items (wrapXCollection = wrapCollection(wrapX)).
ItemWrap ==
    [wrapUserCollection                   |-> "wrapUser",
     wrapOrganizationMembershipCollection |-> "wrapOrganizationMembership",
     wrapTeamCollection                   |-> "wrapTeam",
     wrapTeamMembershipCollection         |-> "wrapTeamMembership",
     wrapTeamSpaceMembershipCollection    |-> "wrapTeamSpaceMembership",
     wrapSpaceMembershipCollection        |-> "wrapSpaceMembership",
     wrapAppDefinitionCollection          |-> "wrapAppDefinition"]

\* entities.<entity>.<fn>(http, data)
callEntitiesWrap(fn, h, data) ==
    IF fn \in DOMAIN ItemWrap THEN wrapCollection(ItemWrap[fn], h, data)
                              ELSE callWrap(fn, h, data)

\* The objects of hs, moved to the addresses after base.
Relocate(hs, base) ==
    [i \in 1..Len(hs) |->
       [hs[i] EXCEPT !.props = [k \in DOMAIN @ |->
                                  IF @[k].t = "ref" THEN Ref(@[k].r + base) ELSE @[k]]]]

\* The data a server answers with: variant v of an entity or of a collection.
ResponseData(fn, v) ==
    IF fn \in DOMAIN ItemWrap
       THEN RawCollection("2", "0", "100", IF v = 1 THEN <<1, 2>> ELSE <<2>>)
       ELSE <<RawItem(v, 2), RawItemSys(v)>>

Variants == {1, 2}

\* The query objects the caller holds, at addresses 1 and 2 of the heap.
CallerQueries ==
    << Obj([limit |-> Prim("10")]),
       Obj(("sys.team.sys.id" :> Prim("t9")) @@ [order |-> Prim("name")]) >>

\* A caller's argument: absent (<<>>) or the given value.
Given(x) == <<x>>
Absent == <<>>

\* JavaScript truthiness of an optional string: undefined and '' are falsy.
Truthy(x) == x # Absent /\ x[1] # ""

Ids == {"i1"}
TeamIds == {Absent, Given(""), Given("t1")}
QueryArgs == {0}
TeamQueryArgs == {0, 1, 2}

\* `query = {}` as a default parameter, and get(opts, 'query', {}): the
\* caller's object when one is given, a new empty object otherwise.
defaultQuery(h, q) ==
    IF q = 0 THEN [heap |-> Append(h, Obj(EmptyProps)), q |-> Len(h) + 1]
             ELSE [heap |-> h, q |-> q]

\* createRequestConfig({ query }) of contentful-sdk-core: the request
\* parameters are a copy of the query.
createRequestConfig(h, q) == Flat(h, q)

\* http.get(path) and http.post(path, data), with the optional config.
HttpGet(h, path) ==
    [heap |-> h, verb |-> "GET", path |-> path, hasConfig |-> FALSE, params |-> {},
     headers |-> "", body |-> ""]

\* http.get(path, createRequestConfig({ query })), d being the query object in
\* its heap: [heap, q].
HttpGetQuery(d, path) ==
    [heap |-> d.heap, verb |-> "GET", path |-> path, hasConfig |-> TRUE,
     params |-> createRequestConfig(d.heap, d.q), headers |-> "", body |-> ""]

HttpGetHeaders(h, path, headers) ==
    [heap |-> h, verb |-> "GET", path |-> path, hasConfig |-> TRUE, params |-> {},
     headers |-> headers, body |-> ""]

HttpPost(h, path, data, headers) ==
    [heap |-> h, verb |-> "POST", path |-> path, hasConfig |-> headers # "", params |-> {},
     headers |-> headers, body |-> data]

\* The request of a method that takes (query = {}).
QueryRequest(h, path, q) == HttpGetQuery(defaultQuery(h, q), path)

\* A mutant of getTeamMembershipsRequest: the team's path is never taken.
getTeamMembershipsRequestAll(h, opts) ==
    HttpGetQuery(defaultQuery(h, opts.query), <<"team_memberships">>)

\* getTeamMemberships(opts): the request it builds.
getTeamMembershipsRequest(h, opts) ==
    HttpGetQuery(defaultQuery(h, opts.query),
                 IF Truthy(opts.teamId)
                    THEN <<"teams/", opts.teamId[1], "/team_memberships">>
                    ELSE <<"team_memberships">>)

\* A mutant of getTeamSpaceMembershipsRequest: the team filter is not written.
getTeamSpaceMembershipsRequestNoFilter(h, opts) ==
    HttpGetQuery(defaultQuery(h, opts.query), <<"team_space_memberships">>)

\* getTeamSpaceMemberships(opts): the request it builds, after writing the
\* team filter into the query object.
\* if (opts.teamId) { query['sys.team.sys.id'] = opts.teamId }
setTeamFilter(d, opts) ==
    IF Truthy(opts.teamId)
       THEN [d EXCEPT !.heap = SetProp(@, d.q, "sys.team.sys.id", Prim(opts.teamId[1]))]
       ELSE d

\* { ...query }: a new object with the properties of the query object.
spreadQuery(d) ==
    [heap |-> Append(d.heap, Obj(d.heap[d.q].props)), q |-> Len(d.heap) + 1]

\* A mutant of getTeamSpaceMembershipsRequest: the team filter is written into
\* a copy of the query object, and the caller's object is left alone.
getTeamSpaceMembershipsRequestCopy(h, opts) ==
    HttpGetQuery(setTeamFilter(spreadQuery(defaultQuery(h, opts.query)), opts),
                 <<"team_space_memberships">>)

getTeamSpaceMembershipsRequest(h, opts) ==
    HttpGetQuery(setTeamFilter(defaultQuery(h, opts.query), opts),
                 <<"team_space_memberships">>)

NoOpts == [teamId |-> Absent, query |-> 0]

\* A method is called: its request is issued through http, and the promise it
\* returns is pending.
Issue(method, wrapFn, opts, req) ==
    /\ Len(calls) < MaxCalls
    /\ heap' = req.heap
    /\ calls' = Append(calls,
         [method |-> method, wrapFn |-> wrapFn, opts |-> opts,
          http |-> "pending", promise |-> "pending", value |-> "none",
          resp |-> 0, wrapArg |-> 0, result |-> 0, wraps |-> 0, errs |-> 0])
    /\ requests' = Append(requests,
         [call |-> Len(calls) + 1, verb |-> req.verb, path |-> req.path,
          hasConfig |-> req.hasConfig, params |-> req.params,
          headers |-> req.headers, body |-> req.body])
    /\ UNCHANGED <<wrapVars, collVars>>

getUser(id) ==
    Issue("getUser", "wrapUser", NoOpts, HttpGet(heap, <<"users/", id>>))

getUsers(q) ==
    Issue("getUsers", "wrapUserCollection", [NoOpts EXCEPT !.query = q],
          QueryRequest(heap, <<"users">>, q))

getOrganizationMembership(id) ==
    Issue("getOrganizationMembership", "wrapOrganizationMembership", NoOpts,
          HttpGet(heap, <<"organization_memberships/", id>>))

getOrganizationMemberships(q) ==
    Issue("getOrganizationMemberships", "wrapOrganizationMembershipCollection",
          [NoOpts EXCEPT !.query = q],
          QueryRequest(heap, <<"organization_memberships">>, q))

createTeam(data) ==
    Issue("createTeam", "wrapTeam", NoOpts, HttpPost(heap, <<"teams">>, data, ""))

getTeam(teamId) ==
    Issue("getTeam", "wrapTeam", NoOpts, HttpGet(heap, <<"teams/", teamId>>))

getTeams(q) ==
    Issue("getTeams", "wrapTeamCollection", [NoOpts EXCEPT !.query = q],
          QueryRequest(heap, <<"teams">>, q))

createTeamMembership(teamId, data) ==
    Issue("createTeamMembership", "wrapTeamMembership", NoOpts,
          HttpPost(heap, <<"teams/", teamId, "/team_memberships">>, data, ""))

getTeamMembership(teamId, teamMembershipId) ==
    Issue("getTeamMembership", "wrapTeamMembership", NoOpts,
          HttpGet(heap, <<"teams/", teamId, "/team_memberships/", teamMembershipId>>))

getTeamMemberships(opts) ==
    Issue("getTeamMemberships", "wrapTeamMembershipCollection", opts,
          getTeamMembershipsRequest(heap, opts))

getTeamSpaceMemberships(opts) ==
    Issue("getTeamSpaceMemberships", "wrapTeamSpaceMembershipCollection", opts,
          getTeamSpaceMembershipsRequest(heap, opts))

getTeamSpaceMembership(teamSpaceMembershipId) ==
    Issue("getTeamSpaceMembership", "wrapTeamSpaceMembership", NoOpts,
          HttpGet(heap, <<"team_space_memberships/", teamSpaceMembershipId>>))

getOrganizationSpaceMembership(id) ==
    Issue("getOrganizationSpaceMembership", "wrapSpaceMembership", NoOpts,
          HttpGet(heap, <<"space_memberships/", id>>))

getOrganizationSpaceMemberships(q) ==
    Issue("getOrganizationSpaceMemberships", "wrapSpaceMembershipCollection",
          [NoOpts EXCEPT !.query = q], QueryRequest(heap, <<"space_memberships">>, q))

getOrganizationInvitation(invitationId) ==
    Issue("getOrganizationInvitation", "wrapOrganizationInvitation", NoOpts,
          HttpGetHeaders(heap, <<"invitations/", invitationId>>,
                         "organization-user-management-api"))

createOrganizationInvitation(data) ==
    Issue("createOrganizationInvitation", "wrapOrganizationInvitation", NoOpts,
          HttpPost(heap, <<"invitations">>, data, "pending-org-membership"))

createAppDefinition(data) ==
    Issue("createAppDefinition", "wrapAppDefinition", NoOpts,
          HttpPost(heap, <<"app_definitions">>, data, ""))

getAppDefinitions(q) ==
    Issue("getAppDefinitions", "wrapAppDefinitionCollection", [NoOpts EXCEPT !.query = q],
          QueryRequest(heap, <<"app_definitions">>, q))

getAppDefinition(id) ==
    Issue("getAppDefinition", "wrapAppDefinition", NoOpts,
          HttpGet(heap, <<"app_definitions/", id>>))

\* The server's response to the request of call c arrives: the promise of
\* http.get/http.post is fulfilled with a response holding new data.
HttpRespond(c, v) ==
    /\ calls[c].http = "pending"
    /\ heap' = heap \o Relocate(ResponseData(calls[c].wrapFn, v), Len(heap))
    /\ calls' = [calls EXCEPT ![c].http = "ok", ![c].resp = Len(heap) + 1]
    /\ UNCHANGED <<requests, wrapVars, collVars>>

\* The request of call c fails: the promise of http.get/http.post is rejected.
HttpFail(c) ==
    /\ calls[c].http = "pending"
    /\ calls' = [calls EXCEPT ![c].http = "error"]
    /\ UNCHANGED <<heap, requests, wrapVars, collVars>>

\* errorHandler(error) of ./error-handler throws the error it builds.
errorHandler == "throws"

\* The promise of call c resolves with the entity w that wrap returned for the
\* data at arg.
Resolve(c, arg, w) ==
    /\ heap' = w.heap
    /\ calls' = [calls EXCEPT ![c].promise = "resolved", ![c].value = "entity",
                              ![c].wrapArg = arg, ![c].result = w.root,
                              ![c].wraps = @ + 1]

\* The call whose response arrived first.
FirstResponded ==
    CHOOSE d \in DOMAIN calls :
       /\ calls[d].resp # 0
       /\ \A e \in DOMAIN calls : calls[e].resp # 0 => calls[d].resp <= calls[e].resp

\* A mutant of thenFulfilled: the promise resolves with the response's data
\* itself, and no entity is made.
thenFulfilledUnwrapped(c) ==
    /\ calls[c].http = "ok" /\ calls[c].promise = "pending"
    /\ calls' = [calls EXCEPT ![c].promise = "resolved", ![c].value = "entity",
                              ![c].result = calls[c].resp]
    /\ UNCHANGED <<heap, requests, wrapVars, collVars>>

\* A mutant of thenFulfilled: the data of the first response received is
\* wrapped, as if responses were kept in a store shared by the calls.
thenFulfilledShared(c) ==
    /\ calls[c].http = "ok" /\ calls[c].promise = "pending"
    /\ Resolve(c, calls[FirstResponded].resp,
               callEntitiesWrap(calls[c].wrapFn, heap, calls[FirstResponded].resp))
    /\ UNCHANGED <<requests, wrapVars, collVars>>

\* .then((response) => wrapX(http, response.data), ...): the first handler runs
\* on the response and the method's promise resolves with what it returns.
thenFulfilled(c) ==
    /\ calls[c].http = "ok" /\ calls[c].promise = "pending"
    /\ Resolve(c, calls[c].resp, callEntitiesWrap(calls[c].wrapFn, heap, calls[c].resp))
    /\ UNCHANGED <<requests, wrapVars, collVars>>

\* A mutant of thenRejected: the failed request is sent again.
thenRejectedRetry(c) ==
    /\ calls[c].http = "error" /\ calls[c].promise = "pending"
    /\ calls[c].errs = 0
    /\ LET r == CHOOSE i \in DOMAIN requests : requests[i].call = c
       IN  requests' = Append(requests, requests[r])
    /\ calls' = [calls EXCEPT ![c].http = "pending", ![c].errs = @ + 1]
    /\ UNCHANGED <<heap, wrapVars, collVars>>

\* A mutant of thenRejected: the failure is swallowed and the body of the
\* error response is wrapped as if it were an entity.
thenRejectedWraps(c) ==
    /\ calls[c].http = "error" /\ calls[c].promise = "pending"
    /\ Resolve(c, Len(heap) + 1,
               callEntitiesWrap(calls[c].wrapFn,
                                heap \o Relocate(ResponseData(calls[c].wrapFn, 1), Len(heap)),
                                Len(heap) + 1))
    /\ UNCHANGED <<requests, wrapVars, collVars>>

\* .then(..., errorHandler): the second handler runs on the failure, and the
\* method's promise settles with its outcome.
thenRejected(c) ==
    /\ calls[c].http = "error" /\ calls[c].promise = "pending"
    /\ calls' = [calls EXCEPT ![c].errs = @ + 1,
                              ![c].promise = IF errorHandler = "throws" THEN "rejected"
                                                                       ELSE "resolved",
                              ![c].value = IF errorHandler = "throws" THEN "error"
                                                                     ELSE "undefined"]
    /\ UNCHANGED <<heap, requests, wrapVars, collVars>>

Init ==
    /\ heap = CallerQueries
    /\ calls = <<>> /\ requests = <<>>
    /\ raw = 0 /\ entity = 0 /\ plain = 0 /\ entity2 = 0
    /\ writes = 0 /\ sysTouched = FALSE /\ plainFresh = FALSE
    /\ wrappedFrom = {}
    /\ invoked = {}
    /\ rawColl = 0 /\ coll = 0

Settle ==
    \/ \E c \in DOMAIN calls, v \in Variants : HttpRespond(c, v)
    \/ \E c \in DOMAIN calls : HttpFail(c)
    \/ \E c \in DOMAIN calls : thenFulfilled(c)
    \/ \E c \in DOMAIN calls : thenRejected(c)

Next ==
    \/ \E id \in Ids : getUser(id)
    \/ \E q \in QueryArgs : getUsers(q)
    \/ \E id \in Ids : getOrganizationMembership(id)
    \/ \E q \in QueryArgs : getOrganizationMemberships(q)
    \/ createTeam("data")
    \/ \E id \in Ids : getTeam(id)
    \/ \E q \in QueryArgs : getTeams(q)
    \/ \E id \in Ids : createTeamMembership(id, "data")
    \/ \E id \in Ids : getTeamMembership(id, "m1")
    \/ getTeamMemberships([teamId |-> Given("t1"), query |-> 0])
    \/ getTeamSpaceMemberships([teamId |-> Given("t1"), query |-> 2])
    \/ \E id \in Ids : getTeamSpaceMembership(id)
    \/ \E id \in Ids : getOrganizationSpaceMembership(id)
    \/ \E q \in QueryArgs : getOrganizationSpaceMemberships(q)
    \/ \E id \in Ids : getOrganizationInvitation(id)
    \/ createOrganizationInvitation("data")
    \/ createAppDefinition("data")
    \/ \E q \in QueryArgs : getAppDefinitions(q)
    \/ \E id \in Ids : getAppDefinition(id)
    \/ Settle

Spec == Init /\ [][Next]_vars

\* The two methods that take { teamId, query }, over every shape of their argument.
NextTeam ==
    \/ \E t \in TeamIds, q \in TeamQueryArgs :
          getTeamMemberships([teamId |-> t, query |-> q])
    \/ \E t \in TeamIds, q \in TeamQueryArgs :
          getTeamSpaceMemberships([teamId |-> t, query |-> q])
    \/ \E c \in DOMAIN calls : HttpRespond(c, 1)
    \/ \E c \in DOMAIN calls : HttpFail(c)
    \/ \E c \in DOMAIN calls : thenFulfilled(c)
    \/ \E c \in DOMAIN calls : thenRejected(c)

SpecTeam == Init /\ [][NextTeam]_vars

(***************************************************************************)
(* Claims on createOrganizationApi.                                        *)
(***************************************************************************)

\* The requests issued for call c.
RequestsOf(c) == {i \in DOMAIN requests : requests[i].call = c}

\* C3: every call of a method issues exactly one HTTP request, whether the
\* request succeeds or fails: no request is repeated after a failure and none
\* follows a success.
C3_OneRequestPerCall ==
    /\ \A c \in DOMAIN calls : Cardinality(RequestsOf(c)) = 1
    /\ Len(requests) = Len(calls)

\* C3 witness: one call has failed and been rejected, another has succeeded
\* and been resolved.
C3_Witness ==
    \E c, d \in DOMAIN calls :
       /\ calls[c].http = "error" /\ calls[c].promise = "rejected"
       /\ calls[d].http = "ok" /\ calls[d].promise = "resolved"

\* C4: when the HTTP request of a call fails, errorHandler receives the failure
\* exactly once (and is never called otherwise), no wrap function is called,
\* and the method's promise is rejected with errorHandler's error, never
\* resolved with an entity.
C4_FailureToErrorHandler ==
    \A c \in DOMAIN calls :
       /\ calls[c].http # "error" => calls[c].errs = 0
       /\ calls[c].http = "error" =>
            /\ calls[c].wraps = 0 /\ calls[c].result = 0 /\ calls[c].value # "entity"
            /\ calls[c].promise = "pending" => calls[c].errs = 0
            /\ calls[c].promise # "pending" =>
                 /\ calls[c].errs = 1
                 /\ calls[c].promise = "rejected" /\ calls[c].value = "error"

\* C4 witness: a failed call has been settled.
C4_Witness ==
    \E c \in DOMAIN calls : calls[c].http = "error" /\ calls[c].promise # "pending"

\* The objects of the heap that are entities (they carry methods).
Entities == {x \in DOMAIN heap : heap[x].hidden # {}}

\* C5: the wrap function of a call runs at most once, only after the call's
\* successful response and on that response's data; the promise resolves with
\* the entity wrap returned, which is a new object carrying toPlainObject; and
\* while no response has arrived there is no entity.
C5_WrapAfterResponse ==
    /\ \A c \in DOMAIN calls :
          /\ calls[c].wraps <= 1
          /\ calls[c].http = "pending" => calls[c].wraps = 0 /\ calls[c].result = 0
          /\ calls[c].wraps = 1 =>
               /\ calls[c].http = "ok"
               /\ calls[c].wrapArg = calls[c].resp
               /\ calls[c].promise = "resolved"
          /\ calls[c].promise = "resolved" =>
               /\ calls[c].wraps = 1 /\ calls[c].value = "entity"
               /\ calls[c].result \in Entities
               /\ calls[c].result \notin Closure(heap, {calls[c].resp})
    /\ (\A c \in DOMAIN calls : calls[c].http # "ok") => Entities = {}

\* C5 witness: one call has resolved with its entity while another still
\* waits for its response.
C5_Witness ==
    \E c, d \in DOMAIN calls :
       /\ calls[c].promise = "resolved" /\ calls[c].result # 0
       /\ calls[d].http = "pending"

\* The objects call c has received or made: its response data and its entity.
ObjectsOf(c) ==
    Closure(heap, {x \in {calls[c].resp, calls[c].result} : x # 0})

\* C6: there is no store shared by the calls: the entity a call resolves with
\* has the value of that call's own response, shares no object with what
\* another call received or made, and, once returned, is never changed by a
\* later step of any call.
C6_NoSharedStore ==
    /\ [](\A c \in DOMAIN calls :
            calls[c].promise = "resolved" =>
              /\ Flat(heap, calls[c].result) = Flat(heap, calls[c].resp)
              /\ \A d \in DOMAIN calls \ {c} : ObjectsOf(c) \cap ObjectsOf(d) = {})
    /\ [][\A c \in DOMAIN calls :
            calls[c].result # 0 =>
              /\ calls'[c].result = calls[c].result
              /\ \A x \in Closure(heap, {calls[c].result}) : heap'[x] = heap[x]]_vars

\* C6 witness: two calls of the same method have resolved, the later call's
\* response having arrived first, with entities of different values.
C6_Witness ==
    \E c, d \in DOMAIN calls :
       /\ c < d /\ calls[c].method = calls[d].method
       /\ calls[c].promise = "resolved" /\ calls[d].promise = "resolved"
       /\ calls[d].resp < calls[c].resp
       /\ Flat(heap, calls[c].result) # Flat(heap, calls[d].result)

\* The value of the empty object {}.
EmptyValue == {<< <<>>, "<object>" >>}

\* The value of the query the caller passed in opts, in heap h.
CallerQuery(h, opts) == IF opts.query = 0 THEN EmptyValue ELSE Flat(h, opts.query)

\* The requests a step issues.
NewRequests == {requests'[i] : i \in (DOMAIN requests') \ (DOMAIN requests)}

WithKey(F, k, v) == {e \in F : e[1] # <<k>>} \cup {<< <<k>>, v >>}

TeamFilterKey == "sys.team.sys.id"

\* Call c is a getTeamSpaceMemberships call that passed the query object q and
\* a teamId that is provided (asClaimed) or truthy.
FiltersInto(cs, c, q, asClaimed) ==
    /\ cs[c].method = "getTeamSpaceMemberships"
    /\ cs[c].opts.query = q
    /\ IF asClaimed THEN cs[c].opts.teamId # Absent ELSE Truthy(cs[c].opts.teamId)

\* What a step does to the caller's query objects: a getTeamSpaceMemberships
\* call that filters into its query object sets the team filter of that very
\* object to its teamId and changes nothing else of it, and every other step
\* leaves the caller's query objects as they are.
QueryObjectsStep(asClaimed) ==
    \A q \in DOMAIN CallerQueries :
       IF \E r \in NewRequests : FiltersInto(calls', r.call, q, asClaimed)
          THEN \A r \in NewRequests :
                  Flat(heap', q) = WithKey(Flat(heap, q), TeamFilterKey,
                                           calls'[r.call].opts.teamId[1])
          ELSE heap'[q] = heap[q]

====
